---- MODULE Spec2Model ----
(***************************************************************************)
(* Model of SQLHelper (cyberdrop_dl/base_functions/sql_helper.py): the     *)
(* sqlite-backed download history, temp-name table and coomeno cache.      *)
(*                                                                         *)
(* The database file is the durable state (schema, media_columns,          *)
(* committed, downloads_temp, coomeno, the legacy table downloads,         *)
(* page_count, freelist_count); the SQLHelper object is the volatile state *)
(* (ignore_history, ignore_cache, conn, old_history), and media is the     *)
(* table as the connection sees it, uncommitted rows included.  Queries    *)
(* are operators of the state that yield the set of outcomes the call can  *)
(* have.                                                                   *)
(*                                                                         *)
(* Spec takes every method call as one step: a method that neither awaits  *)
(* between its statements nor is interrupted runs to its commit.           *)
(* SpecSteps takes the batch inserts statement by statement, suspended at  *)
(* each await, with the calls of other workers and the exit of the process *)
(* in between.  SpecClaim is two workers choosing temp names.  SpecForeign *)
(* starts on a file whose table media was made by another program.         *)
(* SpecManager is Manager (managers/manager.py) with tasks that call       *)
(* async_db_hash_startup and close, suspended at each await.               *)
(***************************************************************************)
EXTENDS Integers, Sequences, FiniteSets, TLC

\* ------------------------------------------------------------------ bounds
\* Rows the file may hold over media, downloads_temp and coomeno together.
MaxRows == 2

\* ------------------------------------------------------- program constants
\* pre_allocate reserves when PRAGMA freelist_count is at or below this.
FreeThreshold == 1024
\* Overflow pages taken by zeroblob(50*1024*1024) at sqlite's 4096-byte page.
BlobPages == 12812
\* Bytes of a page of a file made by sqlite3.connect with its defaults.
PageSize == 4096
\* Bytes of the blob pre_allocate inserts: zeroblob(50*1024*1024).
ReserveBytes == 50 * 1024 * 1024

\* ------------------------------------------------------------ input values
Domains == {"example", "other"}
UrlPaths == {"/a", "/b"}
Filenames == {"a.jpg", "b.jpg"}
LocalNames == {"a_1.jpg"}
Payloads == {"<html>", "<different>"}
Completed == {0, 1}
Keys == UrlPaths \X Filenames
Workers == {"w1", "w2"}
Tasks == {"t1", "t2", "t3"}

\* Python's None and a returned value, as tuples so that they compare.
None == <<>>
Some(v) == <<v>>

VARIABLES
    ignore_history,   \* self.ignore_history
    ignore_cache,     \* self.ignore_cache
    conn,             \* self.conn / self.curs: "None", "open" or "closed"
    old_history,      \* self.old_history
    schema,           \* names of the tables in the file (sqlite_schema)
    media_columns,    \* column names of table media, <<>> while it does not exist
    media,            \* rows of table media as the connection sees them
    committed,        \* rows of table media as of the last commit
    downloads_temp,   \* rows of table downloads_temp, in rowid order
    coomeno,          \* rows of table coomeno
    downloads,        \* rows of the V3 table, when the file has one
    page_count,       \* PRAGMA page_count
    freelist_count,   \* PRAGMA freelist_count
    calls,            \* per worker, the batch insert it is suspended in
    claims,           \* per worker, the temp names it listed and the one it chose
    db_manager,       \* Manager.db_manager: "Field", or the task that constructed it
    db_started,       \* whether startup of the DBManager in db_manager has completed
    pc,               \* per task, where it is in async_db_hash_startup or close
    raised            \* exception the last call propagated, "none" if it returned

object == <<ignore_history, ignore_cache, conn, old_history>>
durable == <<schema, media_columns, committed, downloads_temp, coomeno, downloads,
             page_count, freelist_count>>
file == <<durable, media>>
workers == <<calls, claims>>
manager == <<db_manager, db_started, pc>>
vars == <<object, file, workers, manager, raised>>

\* The columns CREATE TABLE gives to media, and those of a table media that
\* another program made.
MediaColumns ==
    <<"domain", "url_path", "album_path", "referer", "download_path",
      "download_filename", "original_filename", "completed">>
ForeignColumns == <<"id", "url">>

\* The V3 history rows of a file written by the earlier release.
LegacyRows == {[path |-> "/a", completed |-> 1], [path |-> "/b", completed |-> 0]}

\* Files the program can be started on: a fresh one, one left by V3 with the
\* table downloads, and one that holds a table of another name.
InitialFiles ==
    { [schema |-> {}, media_columns |-> <<>>, downloads |-> {},
       page_count |-> 0, freelist_count |-> 0],
      [schema |-> {"downloads"}, media_columns |-> <<>>, downloads |-> LegacyRows,
       page_count |-> 3000, freelist_count |-> 1000],
      [schema |-> {"Downloads"}, media_columns |-> <<>>, downloads |-> LegacyRows,
       page_count |-> 3000, freelist_count |-> 2000] }

\* A file in which another program made a table named media.
ForeignFile ==
    [schema |-> {"media"}, media_columns |-> ForeignColumns, downloads |-> {},
     page_count |-> 3000, freelist_count |-> 2000]

Key(row) == <<row.url_path, row.original_filename>>

RowCount(m, t, c) == Cardinality(m) + Len(t) + Cardinality(c)

\* What a statement does on the cursor in each state of the connection.
CursorError == IF conn = "None" THEN "AttributeError" ELSE "ProgrammingError"

\* ----------------------------------------------------------- construction
\* No batch insert in progress; no temp name listed or chosen.
NoCall == [rows |-> <<>>, done |-> 0]
NoClaim == [seen |-> None, name |-> None]

\* The state after SQLHelper(...) and Manager() in a process started on file f.
Constructed(f) ==
    /\ ignore_history \in BOOLEAN
    /\ ignore_cache \in BOOLEAN
    /\ conn = "None"
    /\ old_history = FALSE
    /\ schema = f.schema
    /\ media_columns = f.media_columns
    /\ downloads = f.downloads
    /\ page_count = f.page_count
    /\ freelist_count = f.freelist_count
    /\ media = {}
    /\ committed = {}
    /\ downloads_temp = <<>>
    /\ coomeno = {}
    /\ calls = [w \in Workers |-> NoCall]
    /\ claims = [w \in Workers |-> NoClaim]
    /\ db_manager = "Field"
    /\ db_started = FALSE
    /\ pc = [t \in Tasks |-> "idle"]
    /\ raised = "none"

Init == \E f \in InitialFiles : Constructed(f)

\* A new process constructs a SQLHelper over the same file: what the process
\* before it had not committed is rolled back, and its calls are gone.
__init__ ==
    /\ ignore_history' \in BOOLEAN
    /\ ignore_cache' \in BOOLEAN
    /\ conn' = "None"
    /\ old_history' = FALSE
    /\ media' = committed
    /\ calls' = [w \in Workers |-> NoCall]
    /\ claims' = [w \in Workers |-> NoClaim]
    /\ raised' = "none"
    /\ UNCHANGED <<durable, manager>>

\* ---------------------------------------------------------- initialization
\* check_old_history matching the name without regard to case.
check_old_history_AnyCase(tables, flag) ==
    IF tables \cap {"downloads", "Downloads"} # {} THEN TRUE ELSE flag

\* check_old_history: the catalog lookup is for the exact name.
check_old_history(tables, flag) ==
    IF "downloads" \in tables THEN TRUE ELSE flag

\* Pages for n new b-tree or overflow pages: from the freelist first, then by
\* extending the file (whose first page is the schema page).
Allocate(pages, n) ==
    LET base == IF pages.page_count = 0 /\ n > 0 THEN 1 ELSE pages.page_count
        reuse == IF pages.freelist_count < n THEN pages.freelist_count ELSE n
    IN  [page_count |-> base + (n - reuse),
         freelist_count |-> pages.freelist_count - reuse]

\* pre_alloc: CREATE TABLE IF NOT EXISTS t(x).
pre_alloc(tables) == tables \cup {"t"}

\* A DROP TABLE that names the history table.
drop_pre_Media(tables) == tables \ {"media"}

\* drop_pre: DROP TABLE t.
drop_pre(tables) == tables \ {"t"}

\* pre_allocate with the test reversed: it reserves on a file with many free
\* pages and not on one with few.
pre_allocate_Above(db) ==
    IF db.freelist_count > FreeThreshold
    THEN LET grown == Allocate(db, 1 + BlobPages)
         IN  [schema |-> drop_pre(pre_alloc(db.schema)),
              page_count |-> grown.page_count,
              freelist_count |-> grown.freelist_count + 1 + BlobPages]
    ELSE db

\* pre_allocate without the DROP: table t stays and its pages stay in use.
pre_allocate_NoDrop(db) ==
    IF db.freelist_count <= FreeThreshold
    THEN LET grown == Allocate(db, 1 + BlobPages)
         IN  [schema |-> pre_alloc(db.schema),
              page_count |-> grown.page_count,
              freelist_count |-> grown.freelist_count]
    ELSE db

\* pre_allocate reserving only below the threshold, not at it.
pre_allocate_Below(db) ==
    IF db.freelist_count < FreeThreshold
    THEN LET grown == Allocate(db, 1 + BlobPages)
         IN  [schema |-> drop_pre(pre_alloc(db.schema)),
              page_count |-> grown.page_count,
              freelist_count |-> grown.freelist_count + 1 + BlobPages]
    ELSE db

\* pre_allocate: if PRAGMA freelist_count is at or below the threshold, CREATE
\* TABLE t, INSERT zeroblob, DROP TABLE t; the pages of t go to the freelist.
pre_allocate(db) ==
    IF db.freelist_count <= FreeThreshold
    THEN LET grown == Allocate(db, 1 + BlobPages)
         IN  [schema |-> drop_pre(pre_alloc(db.schema)),
              page_count |-> grown.page_count,
              freelist_count |-> grown.freelist_count + 1 + BlobPages]
    ELSE db

\* The rows a table holds after the statements that left tables: none if it
\* was dropped.
RowsIn(tables, name, rows) == IF name \in tables THEN rows ELSE {}

\* CREATE TABLE IF NOT EXISTS media: a table of that name keeps its columns.
CreateMedia(tables, columns) == IF "media" \in tables THEN columns ELSE MediaColumns

\* create_media_history without the DELETE: claimed names outlive the run.
create_media_history_KeepsTemp(tables, temp) ==
    [schema |-> tables \cup {"media", "downloads_temp"}, downloads_temp |-> temp]

\* create_media_history: CREATE TABLE IF NOT EXISTS media and downloads_temp,
\* then DELETE FROM downloads_temp.
create_media_history(tables, temp) ==
    [schema |-> tables \cup {"media", "downloads_temp"}, downloads_temp |-> <<>>]

\* create_coomeno_history: CREATE TABLE IF NOT EXISTS coomeno.
create_coomeno_history(tables) == tables \cup {"coomeno"}

\* Root pages of the tables CREATE TABLE IF NOT EXISTS adds: media and coomeno
\* have a primary-key index besides the table, downloads_temp has none.
NewRootPages(tables) ==
    (IF "media" \in tables THEN 0 ELSE 2)
    + (IF "downloads_temp" \in tables THEN 0 ELSE 1)
    + (IF "coomeno" \in tables THEN 0 ELSE 2)

\* sql_initialize: a new connection (the one before it, if any, is dropped
\* with what it had not committed), then the four steps, each committed.
sql_initialize ==
    LET reserved == pre_allocate([schema |-> schema, page_count |-> page_count,
                                  freelist_count |-> freelist_count])
        created == Allocate(reserved, NewRootPages(reserved.schema))
        history == create_media_history(reserved.schema, downloads_temp)
    IN  /\ conn' = "open"
        /\ old_history' = check_old_history(schema, old_history)
        /\ schema' = create_coomeno_history(history.schema)
        /\ media_columns' = CreateMedia(reserved.schema, media_columns)
        /\ media' = RowsIn(reserved.schema, "media", committed)
        /\ committed' = media'
        /\ coomeno' = RowsIn(reserved.schema, "coomeno", coomeno)
        /\ downloads_temp' = history.downloads_temp
        /\ page_count' = created.page_count
        /\ freelist_count' = created.freelist_count
        /\ raised' = "none"
        /\ UNCHANGED <<manager, ignore_history, ignore_cache, downloads, workers>>

\* A statement on a connection that is not open raises and changes nothing.
Fails ==
    /\ conn # "open"
    /\ raised' = CursorError
    /\ UNCHANGED <<manager, object, file, workers>>

\* ------------------------------------------------------- temp table
get_temp_names ==
    IF conn # "open"
    THEN {[ret |-> None, queries |-> 0, raised |-> CursorError]}
    ELSE {[ret |-> Some(downloads_temp), queries |-> 1, raised |-> "none"]}

\* INSERT OR IGNORE into a table that declares no key: nothing to conflict with.
InsertTemp(rows, downloaded_filename) == Append(rows, downloaded_filename)

\* The statement and the commit of sql_insert_temp.
WriteTemp(downloaded_filename) ==
    /\ downloads_temp' = InsertTemp(downloads_temp, downloaded_filename)
    /\ RowCount(media, downloads_temp', coomeno) <= MaxRows
    /\ committed' = media
    /\ raised' = "none"
    /\ UNCHANGED <<manager, object, schema, media_columns, media, coomeno, downloads,
                   page_count, freelist_count, calls>>

sql_insert_temp(downloaded_filename) ==
    /\ conn = "open"
    /\ WriteTemp(downloaded_filename)
    /\ UNCHANGED claims

\* ------------------------------------------------------- coomeno table
\* INSERT OR REPLACE in place of INSERT OR IGNORE.
InsertBlob_Replace(rows, url_path, blob) ==
    {r \in rows : r.url_path # url_path}
    \cup {[url_path |-> url_path, post_data |-> blob]}

\* INSERT OR IGNORE under PRIMARY KEY (url_path).
InsertBlob(rows, url_path, blob) ==
    IF \E r \in rows : r.url_path = url_path
    THEN rows
    ELSE rows \cup {[url_path |-> url_path, post_data |-> blob]}

insert_blob(blob, url_path) ==
    /\ conn = "open"
    /\ coomeno' = InsertBlob(coomeno, url_path, blob)
    /\ RowCount(media, downloads_temp, coomeno') <= MaxRows
    /\ committed' = media
    /\ raised' = "none"
    /\ UNCHANGED <<manager, object, schema, media_columns, media, downloads_temp, downloads,
                   page_count, freelist_count, workers>>

get_blob(url_path) ==
    IF ignore_cache
    THEN {[ret |-> None, queries |-> 0, raised |-> "none"]}
    ELSE IF conn # "open"
    THEN {[ret |-> None, queries |-> 0, raised |-> CursorError]}
    ELSE LET hits == {r \in coomeno : r.url_path = url_path}
         IN  IF hits = {}
             THEN {[ret |-> None, queries |-> 1, raised |-> "none"]}
             ELSE {[ret |-> Some(r.post_data), queries |-> 1, raised |-> "none"] : r \in hits}

\* ------------------------------------------------------- media table
\* A row that is stored as completed whatever the call passes.
MediaRow_Completed(domain, url_path, album_path, referer, download_path, download_filename, original_filename, completed) ==
    [domain |-> domain, url_path |-> url_path, album_path |-> album_path,
     referer |-> referer, download_path |-> download_path,
     download_filename |-> download_filename,
     original_filename |-> original_filename, completed |-> 1]

\* A row of table media, in column order.
MediaRow(domain, url_path, album_path, referer, download_path, download_filename, original_filename, completed) ==
    [domain |-> domain, url_path |-> url_path, album_path |-> album_path,
     referer |-> referer, download_path |-> download_path,
     download_filename |-> download_filename,
     original_filename |-> original_filename, completed |-> completed]

\* INSERT OR REPLACE in place of INSERT OR IGNORE.
InsertOrIgnore_Replace(rows, row) ==
    {r \in rows : Key(r) # Key(row)} \cup {row}

\* INSERT OR IGNORE under PRIMARY KEY (url_path, original_filename).
InsertOrIgnore(rows, row) ==
    IF \E r \in rows : Key(r) = Key(row) THEN rows ELSE rows \cup {row}

RECURSIVE InsertAll(_, _)
\* The INSERT OR IGNORE statements of one batch, in loop order.
InsertAll(rows, batch) ==
    IF batch = <<>> THEN rows
    ELSE InsertAll(InsertOrIgnore(rows, Head(batch)), Tail(batch))

\* The part of a call that writes media and commits, on a table media with
\* the columns the statements name.
WriteMedia(rows) ==
    /\ media_columns = MediaColumns
    /\ media' = rows
    /\ committed' = rows
    /\ RowCount(media', downloads_temp, coomeno) <= MaxRows
    /\ raised' = "none"
    /\ UNCHANGED <<manager, object, schema, media_columns, downloads_temp, coomeno, downloads,
                   page_count, freelist_count, workers>>

insert_media(domain, url_path, album_path, referer, download_path, download_filename, original_filename, completed) ==
    /\ conn = "open"
    /\ WriteMedia(InsertOrIgnore(media,
          MediaRow(domain, url_path, album_path, referer, download_path,
                   download_filename, original_filename, completed)))

\* yarl's str(URL) and URL.path of a scraped link.
str(url) == "http://" \o url.host \o url.path

\* get_db_path: the path of the url, its host dropped.
get_db_path(url, domain) == url.path

RECURSIVE AlbumRows(_, _, _)
\* insert_album's loop: one row per media item of the album.
AlbumRows(domain, album_path, items) ==
    IF items = <<>> THEN <<>>
    ELSE <<MediaRow(domain, get_db_path(Head(items).url, domain), album_path,
                    str(Head(items).referer), "", "", Head(items).filename, 0)>>
         \o AlbumRows(domain, album_path, Tail(items))

insert_album(domain, album_path, album) ==
    /\ conn = "open"
    /\ WriteMedia(InsertAll(media, AlbumRows(domain, album_path, album.media)))

RECURSIVE DomainRows(_, _, _)
\* insert_domain's loops: the albums of the domain in dict order.
DomainRows(domain_name, album_path, albums) ==
    IF albums = <<>> THEN <<>>
    ELSE AlbumRows(domain_name, album_path, Head(albums)[2].media)
         \o DomainRows(domain_name, album_path, Tail(albums))

insert_domain(domain_name, album_path, domain) ==
    /\ conn = "open"
    /\ WriteMedia(InsertAll(media, DomainRows(domain_name, album_path, domain.albums)))

RECURSIVE CascadeMedia(_, _)
\* insert_cascade's innermost loop: album_path is the referer's path.
CascadeMedia(domain, items) ==
    IF items = <<>> THEN <<>>
    ELSE <<MediaRow(domain, get_db_path(Head(items).url, domain),
                    Head(items).referer.path, str(Head(items).referer), "", "",
                    Head(items).filename, 0)>>
         \o CascadeMedia(domain, Tail(items))

RECURSIVE CascadeAlbums(_, _)
CascadeAlbums(domain, albums) ==
    IF albums = <<>> THEN <<>>
    ELSE CascadeMedia(domain, Head(albums)[2].media) \o CascadeAlbums(domain, Tail(albums))

RECURSIVE CascadeRows(_)
\* insert_cascade's loops: the domains of the cascade in dict order.
CascadeRows(domains) ==
    IF domains = <<>> THEN <<>>
    ELSE CascadeAlbums(Head(domains)[1], Head(domains)[2].albums)
         \o CascadeRows(Tail(domains))

\* CascadeItem.is_empty: no domain holds media.
is_empty(cascade) == CascadeRows(cascade.domains) = <<>>

insert_cascade(cascade) ==
    /\ conn = "open"
    /\ WriteMedia(IF is_empty(cascade) THEN media
                  ELSE InsertAll(media, CascadeRows(cascade.domains)))

\* An UPDATE that also resets the completed flag.
UpdatePreDownload_Resets(rows, path, filename, url_path, original_filename) ==
    { IF Key(r) = <<url_path, original_filename>>
      THEN [r EXCEPT !.download_path = path, !.download_filename = filename,
                     !.completed = 0]
      ELSE r : r \in rows }

\* UPDATE media SET download_path, download_filename WHERE key.
UpdatePreDownload(rows, path, filename, url_path, original_filename) ==
    { IF Key(r) = <<url_path, original_filename>>
      THEN [r EXCEPT !.download_path = path, !.download_filename = filename]
      ELSE r : r \in rows }

update_pre_download(path, filename, url_path, original_filename) ==
    /\ conn = "open"
    /\ WriteMedia(UpdatePreDownload(media, path, filename, url_path, original_filename))

\* An UPDATE whose WHERE names url_path only.
MarkComplete_ByUrlPath(rows, url_path, original_filename) ==
    { IF r.url_path = url_path
      THEN [r EXCEPT !.completed = 1]
      ELSE r : r \in rows }

\* UPDATE media SET completed = 1 WHERE key.
MarkComplete(rows, url_path, original_filename) ==
    { IF Key(r) = <<url_path, original_filename>>
      THEN [r EXCEPT !.completed = 1]
      ELSE r : r \in rows }

mark_complete(url_path, original_filename) ==
    /\ conn = "open"
    /\ WriteMedia(MarkComplete(media, url_path, original_filename))

\* ------------------------------------------------------- lookups
\* get_downloaded_filename treating an empty download_filename as no result.
get_downloaded_filename_EmptyIsNone(url_path, filename) ==
    IF conn # "open"
    THEN {[ret |-> None, queries |-> 0, raised |-> CursorError]}
    ELSE IF media_columns # MediaColumns
    THEN {[ret |-> None, queries |-> 1, raised |-> "OperationalError"]}
    ELSE LET hits == {r \in media : r.url_path = url_path /\ r.original_filename = filename
                                    /\ r.download_filename # ""}
         IN  IF hits = {}
             THEN {[ret |-> None, queries |-> 1, raised |-> "none"]}
             ELSE {[ret |-> Some(r.download_filename), queries |-> 1, raised |-> "none"]
                     : r \in hits}

\* get_downloaded_filename short-circuiting on ignore_history.
get_downloaded_filename_Ignores(url_path, filename) ==
    IF ignore_history
    THEN {[ret |-> None, queries |-> 0, raised |-> "none"]}
    ELSE IF conn # "open"
    THEN {[ret |-> None, queries |-> 0, raised |-> CursorError]}
    ELSE IF media_columns # MediaColumns
    THEN {[ret |-> None, queries |-> 1, raised |-> "OperationalError"]}
    ELSE LET hits == {r \in media : r.url_path = url_path /\ r.original_filename = filename}
         IN  IF hits = {}
             THEN {[ret |-> None, queries |-> 1, raised |-> "none"]}
             ELSE {[ret |-> Some(r.download_filename), queries |-> 1, raised |-> "none"]
                     : r \in hits}

\* fetchone() of a SELECT without ORDER BY: any row of the result may be first.
get_downloaded_filename(url_path, filename) ==
    IF conn # "open"
    THEN {[ret |-> None, queries |-> 0, raised |-> CursorError]}
    ELSE IF media_columns # MediaColumns
    THEN {[ret |-> None, queries |-> 1, raised |-> "OperationalError"]}
    ELSE LET hits == {r \in media : r.url_path = url_path /\ r.original_filename = filename}
         IN  IF hits = {}
             THEN {[ret |-> None, queries |-> 1, raised |-> "none"]}
             ELSE {[ret |-> Some(r.download_filename), queries |-> 1, raised |-> "none"]
                     : r \in hits}

sql_check_old_existing(url_path) ==
    IF ~old_history
    THEN {[ret |-> Some(FALSE), queries |-> 0, raised |-> "none"]}
    ELSE IF ignore_history
    THEN {[ret |-> Some(FALSE), queries |-> 0, raised |-> "none"]}
    ELSE IF conn # "open"
    THEN {[ret |-> None, queries |-> 0, raised |-> CursorError]}
    ELSE LET hits == {r \in downloads : r.path = url_path}
         IN  IF hits = {}
             THEN {[ret |-> None, queries |-> 1, raised |-> "none"]}
             ELSE {[ret |-> Some(r.completed = 1), queries |-> 1, raised |-> "none"]
                     : r \in hits}

\* check_complete_singular without the ignore_history test.
check_complete_singular_NoFlag(domain, url_path) ==
    IF conn # "open"
    THEN {[ret |-> None, queries |-> 0, raised |-> CursorError]}
    ELSE IF media_columns # MediaColumns
    THEN {[ret |-> None, queries |-> 1, raised |-> "OperationalError"]}
    ELSE LET hits == {r \in media : r.domain = domain /\ r.url_path = url_path}
         IN  IF hits = {}
             THEN {[ret |-> Some(FALSE), queries |-> 1, raised |-> "none"]}
             ELSE {[ret |-> Some(r.completed # 0), queries |-> 1, raised |-> "none"]
                     : r \in hits}

check_complete_singular(domain, url_path) ==
    IF ignore_history
    THEN {[ret |-> Some(FALSE), queries |-> 0, raised |-> "none"]}
    ELSE IF conn # "open"
    THEN {[ret |-> None, queries |-> 0, raised |-> CursorError]}
    ELSE IF media_columns # MediaColumns
    THEN {[ret |-> None, queries |-> 1, raised |-> "OperationalError"]}
    ELSE LET hits == {r \in media : r.domain = domain /\ r.url_path = url_path}
         IN  IF hits = {}
             THEN {[ret |-> Some(FALSE), queries |-> 1, raised |-> "none"]}
             ELSE {[ret |-> Some(r.completed # 0), queries |-> 1, raised |-> "none"]
                     : r \in hits}

check_filename(filename) ==
    IF conn # "open"
    THEN {[ret |-> None, queries |-> 0, raised |-> CursorError]}
    ELSE IF media_columns # MediaColumns
    THEN {[ret |-> None, queries |-> 1, raised |-> "OperationalError"]}
    ELSE {[ret |-> Some(\E r \in media : r.download_filename = filename),
           queries |-> 1, raised |-> "none"]}

\* ------------------------------------------------------- shutdown
\* exit_handler closing the connection without the commit before it.
exit_handler_NoCommit ==
    /\ conn' = IF conn = "open" THEN "closed" ELSE conn
    /\ raised' = "none"
    /\ UNCHANGED <<manager, ignore_history, ignore_cache, old_history, durable, media, workers>>

\* exit_handler: commit and close; whatever they raise is logged, not raised.
\* It runs as the interpreter exits, so no suspended call is resumed after it.
exit_handler ==
    /\ conn' = IF conn = "open" THEN "closed" ELSE conn
    /\ committed' = IF conn = "open" THEN media ELSE committed
    /\ raised' = "none"
    /\ UNCHANGED <<manager, ignore_history, ignore_cache, old_history, schema, media_columns,
                   media, downloads_temp, coomeno, downloads, page_count,
                   freelist_count, workers>>

\* ------------------------------------------------------- inputs of the calls
AlbumPaths == {"/alb"}
Referers == {[host |-> "x", path |-> "/alb"]}
Paths == {"/downloads"}

\* (download_path, download_filename) as insert_media receives them.
Targets == {<<"", "">>} \cup (Paths \X LocalNames)

MediaItems ==
    {[url |-> [host |-> "example.com", path |-> p], referer |-> r, filename |-> f]
        : p \in UrlPaths, r \in Referers, f \in Filenames}

Albums ==
    {[media |-> <<>>]}
    \cup {[media |-> <<m>>] : m \in MediaItems}
    \cup {[media |-> <<m1, m2>>] : m1 \in MediaItems, m2 \in MediaItems}

OneItemAlbums == {[media |-> <<m>>] : m \in MediaItems}

DomainItems ==
    {[albums |-> <<>>]}
    \cup {[albums |-> << <<"t1", a>> >>] : a \in OneItemAlbums}
    \cup {[albums |-> << <<"t1", a1>>, <<"t2", a2>> >>]
            : a1 \in OneItemAlbums, a2 \in OneItemAlbums}

OneItemDomains == {[albums |-> << <<"t1", a>> >>] : a \in OneItemAlbums}

CascadeItems ==
    {[domains |-> <<>>]}
    \cup {[domains |-> << <<d, di>> >>] : d \in Domains, di \in OneItemDomains}
    \cup {[domains |-> << <<"example", d1>>, <<"other", d2>> >>]
            : d1 \in OneItemDomains, d2 \in OneItemDomains}

Next ==
    \/ __init__
    \/ sql_initialize
    \/ exit_handler
    \/ Fails
    \/ \E n \in LocalNames : sql_insert_temp(n)
    \/ \E b \in Payloads, u \in UrlPaths : insert_blob(b, u)
    \/ \E d \in Domains, k \in Keys, ap \in AlbumPaths, r \in Referers,
          t \in Targets, c \in Completed :
          insert_media(d, k[1], ap, str(r), t[1], t[2], k[2], c)
    \/ \E d \in Domains, ap \in AlbumPaths, a \in Albums : insert_album(d, ap, a)
    \/ \E d \in Domains, ap \in AlbumPaths, di \in DomainItems : insert_domain(d, ap, di)
    \/ \E c \in CascadeItems : insert_cascade(c)
    \/ \E p \in Paths, n \in LocalNames, k \in Keys : update_pre_download(p, n, k[1], k[2])
    \/ \E k \in Keys : mark_complete(k[1], k[2])

Spec == Init /\ [][Next]_vars

\* ------------------------------------------------- a foreign table media
\* A statement of insert_media, insert_album, insert_domain, insert_cascade,
\* update_pre_download or mark_complete on a table media that lacks the
\* columns: execute raises, and the commit after it is not reached.
MediaFails ==
    /\ conn = "open"
    /\ media_columns # MediaColumns
    /\ raised' = "OperationalError"
    /\ UNCHANGED <<manager, object, file, workers>>

InitForeign == Constructed(ForeignFile)

NextForeign ==
    \/ __init__
    \/ sql_initialize
    \/ exit_handler
    \/ Fails
    \/ MediaFails
    \/ \E n \in LocalNames : sql_insert_temp(n)
    \/ \E b \in Payloads, u \in UrlPaths : insert_blob(b, u)

SpecForeign == InitForeign /\ [][NextForeign]_vars

\* A process started on a file that sqlite3.connect is to create.
InitSteps ==
    Constructed([schema |-> {}, media_columns |-> <<>>, downloads |-> {},
                 page_count |-> 0, freelist_count |-> 0])

\* ------------------------------------------------- workers choosing temp names
\* The elements of a list.
Range(list) == {list[i] : i \in 1..Len(list)}

\* Local filenames a worker can choose for a download.
NamesToClaim == Filenames \cup LocalNames

\* Worker w calls get_temp_names and keeps the list it returns.
list_temp_names(w) ==
    /\ conn = "open"
    /\ \E o \in get_temp_names :
          /\ o.raised = "none"
          /\ claims' = [claims EXCEPT ![w] = [seen |-> o.ret, name |-> None]]
    /\ raised' = "none"
    /\ UNCHANGED <<manager, object, file, calls>>

\* Worker w, with the list it holds, chooses a filename that is not in the
\* list and calls sql_insert_temp with it.
claim_temp_name(w, n) ==
    /\ conn = "open"
    /\ claims[w].seen # None
    /\ claims[w].name = None
    /\ n \notin Range(claims[w].seen[1])
    /\ WriteTemp(n)
    /\ claims' = [claims EXCEPT ![w].name = Some(n)]

NextClaim ==
    \/ __init__
    \/ sql_initialize
    \/ exit_handler
    \/ Fails
    \/ \E w \in Workers : list_temp_names(w)
    \/ \E w \in Workers, n \in NamesToClaim : claim_temp_name(w, n)

SpecClaim == InitSteps /\ [][NextClaim]_vars

\* ------------------------------------------------- Manager
\* DBManager.startup, awaited to its end, on the DBManager that db_manager
\* holds or on one that close has since dropped.
startup(holder, t, started) == IF holder = t THEN TRUE ELSE started

\* async_db_hash_startup up to its first await: a db_manager that is not a
\* DBManager is replaced by a new one, whose startup is awaited; else the
\* block is skipped.
async_db_hash_startup(t) ==
    /\ pc[t] = "idle"
    /\ IF db_manager = "Field"
       THEN /\ db_manager' = t
            /\ db_started' = FALSE
            /\ pc' = [pc EXCEPT ![t] = "await_startup"]
       ELSE /\ pc' = [pc EXCEPT ![t] = "past_db"]
            /\ UNCHANGED <<db_manager, db_started>>
    /\ raised' = "none"
    /\ UNCHANGED <<object, file, workers>>

\* await self.db_manager.startup() returns.
startup_returns(t) ==
    /\ pc[t] = "await_startup"
    /\ db_started' = startup(db_manager, t, db_started)
    /\ pc' = [pc EXCEPT ![t] = "past_db"]
    /\ raised' = "none"
    /\ UNCHANGED <<object, file, workers, db_manager>>

\* The hash, live and progress managers, and the return.
async_db_hash_startup_returns(t) ==
    /\ pc[t] = "past_db"
    /\ pc' = [pc EXCEPT ![t] = "idle"]
    /\ raised' = "none"
    /\ UNCHANGED <<object, file, workers, db_manager, db_started>>

\* close up to its first await: a Field has no close.
close(t) ==
    /\ pc[t] = "idle"
    /\ IF db_manager = "Field"
       THEN /\ raised' = "AttributeError"
            /\ UNCHANGED pc
       ELSE /\ raised' = "none"
            /\ pc' = [pc EXCEPT ![t] = "await_close"]
    /\ UNCHANGED <<object, file, workers, db_manager, db_started>>

\* await self.db_manager.close() returns, and db_manager is reset.
close_returns(t) ==
    /\ pc[t] = "await_close"
    /\ db_manager' = "Field"
    /\ db_started' = FALSE
    /\ pc' = [pc EXCEPT ![t] = "idle"]
    /\ raised' = "none"
    /\ UNCHANGED <<object, file, workers>>

NextManager ==
    \/ \E t \in Tasks : async_db_hash_startup(t)
    \/ \E t \in Tasks : startup_returns(t)
    \/ \E t \in Tasks : async_db_hash_startup_returns(t)
    \/ \E t \in Tasks : close(t)
    \/ \E t \in Tasks : close_returns(t)

SpecManager == InitSteps /\ [][NextManager]_vars

\* ------------------------------------------------- batch inserts, by statement
\* Worker w is inside a batch insert: it has run a statement of the loop and
\* is suspended at the await before the next one; the commit is still ahead.
InProgress(w) == calls[w].done < Len(calls[w].rows)

\* Step A taken by worker w, which can call the store when it is not
\* suspended in a call.
By(w, A) == ~InProgress(w) /\ A

\* The loop of a batch insert up to its first suspension with a statement
\* behind it: a batch of at most one row runs to the commit (no await between
\* the last execute and the commit); a longer one runs its first INSERT and
\* stops at the await of the second row.
Begin(w, rows) ==
    IF Len(rows) <= 1
    THEN WriteMedia(InsertAll(media, rows))
    ELSE /\ media_columns = MediaColumns
         /\ media' = InsertOrIgnore(media, rows[1])
         /\ RowCount(media', downloads_temp, coomeno) <= MaxRows
         /\ calls' = [calls EXCEPT ![w] = [rows |-> rows, done |-> 1]]
         /\ raised' = "none"
         /\ UNCHANGED <<manager, object, durable, claims>>

begin_insert_album(w, domain, album_path, album) ==
    /\ conn = "open"
    /\ By(w, Begin(w, AlbumRows(domain, album_path, album.media)))

begin_insert_domain(w, domain_name, album_path, domain) ==
    /\ conn = "open"
    /\ By(w, Begin(w, DomainRows(domain_name, album_path, domain.albums)))

begin_insert_cascade(w, cascade) ==
    /\ conn = "open"
    /\ By(w, Begin(w, IF is_empty(cascade) THEN <<>> ELSE CascadeRows(cascade.domains)))

\* The await returns: the next INSERT of the loop, and after the last one the
\* commit, which commits whatever the connection has pending.
resume(w) ==
    /\ conn = "open"
    /\ InProgress(w)
    /\ media' = InsertOrIgnore(media, calls[w].rows[calls[w].done + 1])
    /\ RowCount(media', downloads_temp, coomeno) <= MaxRows
    /\ IF calls[w].done + 1 = Len(calls[w].rows)
       THEN /\ committed' = media'
            /\ calls' = [calls EXCEPT ![w] = NoCall]
       ELSE /\ committed' = committed
            /\ calls' = [calls EXCEPT ![w].done = calls[w].done + 1]
    /\ raised' = "none"
    /\ UNCHANGED <<manager, object, schema, media_columns, downloads_temp, coomeno, downloads,
                   page_count, freelist_count, claims>>

\* Batches long enough to be suspended between two statements: two media
\* items, and one item twice.
ItemA == [url |-> [host |-> "example.com", path |-> "/a"],
          referer |-> [host |-> "x", path |-> "/alb"], filename |-> "a.jpg"]
ItemB == [url |-> [host |-> "example.com", path |-> "/b"],
          referer |-> [host |-> "x", path |-> "/alb"], filename |-> "a.jpg"]
StepAlbums == {[media |-> <<ItemA, ItemB>>], [media |-> <<ItemB, ItemB>>]}
StepDomains ==
    {[albums |-> << <<"t1", [media |-> <<ItemA>>]>>, <<"t2", [media |-> <<ItemB>>]>> >>]}
StepCascades ==
    {[domains |-> << <<"example", [albums |-> << <<"t1", [media |-> <<ItemB>>]>> >>]>>,
                     <<"other", [albums |-> << <<"t1", [media |-> <<ItemA>>]>> >>]>> >>]}

NextSteps ==
    \/ __init__
    \/ sql_initialize
    \/ exit_handler
    \/ Fails
    \/ \E w \in Workers, k \in Keys, ap \in AlbumPaths, r \in Referers :
          By(w, insert_media("example", k[1], ap, str(r), "", "", k[2], 0))
    \/ \E w \in Workers, ap \in AlbumPaths, a \in StepAlbums :
          begin_insert_album(w, "example", ap, a)
    \/ \E w \in Workers, ap \in AlbumPaths, di \in StepDomains :
          begin_insert_domain(w, "example", ap, di)
    \/ \E w \in Workers, c \in StepCascades : begin_insert_cascade(w, c)
    \/ \E w \in Workers : resume(w)

SpecSteps == InitSteps /\ [][NextSteps]_vars
\* ===================================================================
\* Properties
\* ===================================================================
\* A call returned v after running q statements on the cursor.
Returned(v, q) == {[ret |-> Some(v), queries |-> q, raised |-> "none"]}
\* A call returned None after running q statements on the cursor.
ReturnedNone(q) == {[ret |-> None, queries |-> q, raised |-> "none"]}

RowsOf(k) == {r \in media : Key(r) = k}

\* The step is a call of one of the four insert methods.
IsInsert ==
    \/ \E d \in Domains, k \in Keys, ap \in AlbumPaths, r \in Referers,
          t \in Targets, c \in Completed :
          insert_media(d, k[1], ap, str(r), t[1], t[2], k[2], c)
    \/ \E d \in Domains, ap \in AlbumPaths, a \in Albums : insert_album(d, ap, a)
    \/ \E d \in Domains, ap \in AlbumPaths, di \in DomainItems : insert_domain(d, ap, di)
    \/ \E c \in CascadeItems : insert_cascade(c)

UniqueKey == \A r1 \in media, r2 \in media : Key(r1) = Key(r2) => r1 = r2

\* C1: media holds at most one row per (url_path, original_filename) in every
\* state, and a call of any insert method leaves every row that was there
\* before exactly as it was (so an insert of a present key changes nothing,
\* whatever fields it carries) and raises no error.
C1_InsertIsIdempotent ==
    /\ []UniqueKey
    /\ [][(media \subseteq media' /\ raised' = "none") \/ ~IsInsert]_vars

\* A record is present and an insert_media with its key and other field
\* values can act, leaving the table as it is.
C1_Witness ==
    /\ conn = "open"
    /\ \E r \in media :
          /\ r.domain = "example" /\ r.completed = 0 /\ r.download_filename = ""
          /\ ENABLED (/\ insert_media("other", r.url_path, r.album_path, r.referer,
                                      "/downloads", "a_1.jpg", r.original_filename, 1)
                      /\ media' = media)

\* C2: once a key's completed is 1, no step brings it back to 0: after every
\* step the key still has its row, with completed = 1.
C2_CompletedIsMonotonic ==
    [][\A r \in media : r.completed = 1 =>
          /\ RowsOf(Key(r))' # {}
          /\ \A r2 \in RowsOf(Key(r))' : r2.completed = 1]_vars

\* A completed record on an open store, its download target set: inserts of
\* its key, update_pre_download and mark_complete can all act on it.
C2_Witness ==
    /\ conn = "open"
    /\ \E r \in media :
          /\ r.completed = 1
          /\ r.download_filename # ""
          /\ ENABLED update_pre_download("/downloads", "a_1.jpg", r.url_path,
                                         r.original_filename)

\* C3: with ignore_history unset, in the state that follows
\* mark_complete(url_path, original_filename) on an existing record of domain
\* d, check_complete_singular(d, url_path) returns true, whatever other
\* records the table holds.  (No later call changes the domain or the
\* completed flag of a record, so what holds of this state is what holds of
\* every later one.)
C3_CompleteAfterMark ==
    [][\A r \in media :
          (mark_complete(r.url_path, r.original_filename) /\ ~ignore_history)
          => (check_complete_singular(r.domain, r.url_path) = Returned(TRUE, 1))']_vars
\* C4 as stated: on an initialized store get_downloaded_filename returns
\* None both for a key without record and for a record whose
\* download_filename is still empty, and the chosen download_filename once it
\* is set.
C4_AbsentUntilTargetSet ==
    conn = "open" =>
       \A k \in Keys :
          /\ (\A r \in RowsOf(k) : r.download_filename = "")
                => get_downloaded_filename(k[1], k[2]) = ReturnedNone(1)
          /\ \A r \in RowsOf(k) : r.download_filename # ""
                => get_downloaded_filename(k[1], k[2]) = Returned(r.download_filename, 1)

\* C4 amended: get_downloaded_filename returns None only for a key without
\* record; for a record it returns the stored download_filename, which is the
\* empty string until the target is set; and in the state after
\* update_pre_download(path, filename, key) on a present key it returns
\* exactly filename.
C4_StoredFilenameReturned ==
    /\ [](conn = "open" =>
            \A k \in Keys :
               /\ RowsOf(k) = {} => get_downloaded_filename(k[1], k[2]) = ReturnedNone(1)
               /\ \A r \in RowsOf(k) :
                     get_downloaded_filename(k[1], k[2]) = Returned(r.download_filename, 1))
    /\ [][\A p \in Paths, n \in LocalNames, k \in Keys :
             (RowsOf(k) # {} /\ update_pre_download(p, n, k[1], k[2]))
             => (get_downloaded_filename(k[1], k[2]) = Returned(n, 1))']_vars

\* A pre-scan record whose target is not set: the lookup returns "".
C4_Witness ==
    /\ conn = "open"
    /\ \E r \in media :
          /\ r.download_filename = ""
          /\ get_downloaded_filename(r.url_path, r.original_filename) = Returned("", 1)
          /\ ENABLED update_pre_download("/downloads", "a_1.jpg", r.url_path,
                                         r.original_filename)

\* C5: with ignore_history set, check_complete_singular and
\* sql_check_old_existing return False for every argument in every state,
\* and run no statement on the cursor.
C5_IgnoreHistoryShortCircuits ==
    ignore_history =>
       /\ \A d \in Domains, u \in UrlPaths :
             check_complete_singular(d, u) = Returned(FALSE, 0)
       /\ \A u \in UrlPaths : sql_check_old_existing(u) = Returned(FALSE, 0)

\* ignore_history on a store in legacy mode that holds a completed record
\* whose url_path the V3 table has as completed too.
C5_Witness ==
    /\ ignore_history
    /\ conn = "open"
    /\ old_history
    /\ \E r \in media, l \in downloads :
          r.completed = 1 /\ l.completed = 1 /\ l.path = r.url_path

\* C6 as stated: with ignore_history set, on an initialized store, the two
\* completion checks, get_downloaded_filename and check_filename all report
\* "not found" and run no statement.
C6_AllLookupsShortCircuit ==
    (ignore_history /\ conn = "open") =>
       /\ \A d \in Domains, u \in UrlPaths :
             check_complete_singular(d, u) = Returned(FALSE, 0)
       /\ \A u \in UrlPaths : sql_check_old_existing(u) = Returned(FALSE, 0)
       /\ \A k \in Keys : get_downloaded_filename(k[1], k[2]) = ReturnedNone(0)
       /\ \A n \in LocalNames \cup {""} : check_filename(n) = Returned(FALSE, 0)

\* C6 amended: with ignore_history set, on an initialized store, only the two
\* completion checks report "not found" without a statement;
\* get_downloaded_filename and check_filename run their query and answer from
\* the table: the stored download_filename of the record (None without
\* record), and whether some record has that download_filename.
C6_OnlyCompletionShortCircuits ==
    (ignore_history /\ conn = "open") =>
       /\ \A d \in Domains, u \in UrlPaths :
             check_complete_singular(d, u) = Returned(FALSE, 0)
       /\ \A u \in UrlPaths : sql_check_old_existing(u) = Returned(FALSE, 0)
       /\ \A k \in Keys :
             /\ RowsOf(k) = {} => get_downloaded_filename(k[1], k[2]) = ReturnedNone(1)
             /\ \A r \in RowsOf(k) :
                   get_downloaded_filename(k[1], k[2]) = Returned(r.download_filename, 1)
       /\ \A n \in LocalNames \cup {""} :
             check_filename(n) = Returned(\E r \in media : r.download_filename = n, 1)

\* ignore_history set and a record with a download target: both filename
\* lookups find it.
C6_Witness ==
    /\ ignore_history
    /\ conn = "open"
    /\ \E r \in media :
          /\ r.download_filename = "a_1.jpg"
          /\ get_downloaded_filename(r.url_path, r.original_filename)
                = Returned("a_1.jpg", 1)
          /\ check_filename("a_1.jpg") = Returned(TRUE, 1)

UniqueUrlPath == \A r1 \in coomeno, r2 \in coomeno : r1.url_path = r2.url_path => r1 = r2

\* C7: on an initialized store get_blob(url_path) returns None if
\* ignore_cache is set or coomeno has no row for url_path, else the one
\* payload stored for it; a row enters coomeno only by an insert_blob for a
\* url_path that had none, with that call's payload, and no step changes or
\* removes it: the payload is that of the first insert_blob.
C7_FirstBlobIsKept ==
    /\ [](/\ UniqueUrlPath
          /\ conn = "open" =>
               \A u \in UrlPaths :
                  /\ ignore_cache => get_blob(u) = ReturnedNone(0)
                  /\ (~ignore_cache /\ ~\E r \in coomeno : r.url_path = u)
                        => get_blob(u) = ReturnedNone(1)
                  /\ \A r \in coomeno : (~ignore_cache /\ r.url_path = u)
                        => get_blob(u) = Returned(r.post_data, 1))
    /\ [][/\ coomeno \subseteq coomeno'
          /\ \A r \in coomeno' \ coomeno :
                /\ insert_blob(r.post_data, r.url_path)
                /\ ~\E old \in coomeno : old.url_path = r.url_path]_vars

\* A cached payload is read back while an insert_blob of another payload for
\* the same url_path can act and leaves the table as it is.
C7_Witness ==
    /\ conn = "open"
    /\ ~ignore_cache
    /\ \E r \in coomeno :
          /\ r.post_data = "<html>"
          /\ get_blob(r.url_path) = Returned("<html>", 1)
          /\ ENABLED (insert_blob("<different>", r.url_path) /\ coomeno' = coomeno)

\* C8: whenever sql_initialize completes on a store that was not open (a
\* reopened file), get_temp_names returns the empty list, and the media rows
\* and the cache rows are those the file held before.
C8_TempNamesDoNotSurviveRestart ==
    [][(conn # "open" /\ sql_initialize)
          => /\ get_temp_names' = Returned(<<>>, 1)
             /\ media' = media
             /\ coomeno' = coomeno]_vars

\* A closed or newly constructed store over a file that holds a claimed name
\* and a media record of the earlier run: sql_initialize acts on it.
C8_Witness ==
    /\ conn # "open"
    /\ downloads_temp # <<>>
    /\ media # {}
    /\ ENABLED (sql_initialize /\ downloads_temp' = <<>> /\ media' = media)

\* C9: after any sequence of sql_insert_temp calls in a run, get_temp_names
\* holds each claimed filename exactly once.
C9_TempNamesUnique ==
    conn = "open" =>
       \A o \in get_temp_names :
          \A i \in 1..Len(o.ret[1]), j \in 1..Len(o.ret[1]) :
             o.ret[1][i] = o.ret[1][j] => i = j

\* C10: sql_initialize leaves old_history true exactly if the file holds a
\* table named downloads when it begins; the flag keeps its value while the
\* same SQLHelper lives; and no step adds, drops or alters the V3 table.
C10_LegacyModeDetected ==
    /\ [](conn # "None" => (old_history <=> "downloads" \in schema))
    /\ [][/\ sql_initialize => (old_history' <=> "downloads" \in schema)
          /\ (conn # "None" /\ conn' # "None") => old_history' = old_history
          /\ downloads' = downloads
          /\ schema' \ {"media", "downloads_temp", "coomeno"} = schema \ {"media", "downloads_temp", "coomeno"}]_vars

\* A store in legacy mode after records were written to the new table, the
\* V3 rows as they were.
C10_Witness ==
    /\ conn = "open"
    /\ old_history
    /\ "downloads" \in schema
    /\ downloads = LegacyRows
    /\ media # {}

\* ------------------------------------------------------------ pre_allocate
\* Free-page counts a file can have when pre_allocate reads it.
FreeCounts == {0, 1, 1000, 1024, 1025, 2000}

\* The file as pre_allocate finds it, were its freelist f pages long.
FileWithFree(f) == [schema |-> schema, page_count |-> page_count, freelist_count |-> f]

\* The files pre_allocate can find in this state: the file as it is, and the
\* same file with each other number of free pages that fits in it.
FilesToReserve ==
    {FileWithFree(freelist_count)}
    \cup {FileWithFree(f) : f \in {g \in FreeCounts : g < page_count}}

Reserves(db) == pre_allocate(db) # db

\* C11 as stated: pre_allocate reserves exactly when the free-page count is
\* at or below 1024 and else changes nothing; when it reserves, the file is
\* at least 50 MiB larger than before and table t is not in the schema.
C11_FileGrowsByReservation ==
    \A db \in FilesToReserve :
       /\ Reserves(db) <=> db.freelist_count <= FreeThreshold
       /\ Reserves(db) =>
             /\ (pre_allocate(db).page_count - db.page_count) * PageSize >= ReserveBytes
             /\ "t" \notin pre_allocate(db).schema

\* C11 amended: pre_allocate reserves exactly when the free-page count is at
\* or below 1024 and else changes nothing; when it reserves, the file ends
\* with at least 50 MiB of free pages, it is larger than before by at least
\* 50 MiB less the free pages it had, no table but t is touched and t is not
\* in the schema; and sql_initialize grows the file exactly when the count it
\* finds is at or below 1024, and never leaves t.
C11_ReservationFillsFreelist ==
    /\ [](\A db \in FilesToReserve :
            /\ Reserves(db) <=> db.freelist_count <= FreeThreshold
            /\ Reserves(db) =>
                  /\ pre_allocate(db).freelist_count * PageSize >= ReserveBytes
                  /\ (pre_allocate(db).page_count - db.page_count + db.freelist_count)
                         * PageSize >= ReserveBytes
                  /\ pre_allocate(db).schema = db.schema
                  /\ "t" \notin pre_allocate(db).schema)
    /\ [][sql_initialize =>
             /\ page_count' > page_count <=> freelist_count <= FreeThreshold
             /\ freelist_count <= FreeThreshold
                   => (page_count' - page_count + freelist_count) * PageSize >= ReserveBytes
             /\ "t" \notin schema']_vars

\* A file with some free pages, not more than the threshold: sql_initialize
\* reserves on it, and the blob takes the free pages before it grows the file.
C11_Witness ==
    /\ freelist_count > 0
    /\ freelist_count <= FreeThreshold
    /\ ENABLED (/\ sql_initialize
                /\ page_count' > page_count
                /\ (page_count' - page_count) * PageSize < ReserveBytes)

\* A file sqlite3.connect has just created: no table, no page.
FreshFile == schema = {} /\ page_count = 0

\* C12 as stated: the first sql_initialize of a freshly created file does not
\* reserve: pre_allocate makes no table t and no blob, and the file does not
\* grow by the reservation.
C12_FreshFileNotGrown ==
    [][(sql_initialize /\ FreshFile)
          => /\ ~Reserves(FileWithFree(freelist_count))
             /\ page_count' * PageSize < ReserveBytes]_vars

\* C12 amended: a freshly created file has no free page, so the first
\* sql_initialize reserves: pre_allocate makes table t, inserts the blob and
\* drops t, which leaves the file at least 50 MiB large, with more than 1024
\* free pages and without t.
C12_FreshFileIsGrown ==
    [][(sql_initialize /\ FreshFile)
          => /\ freelist_count = 0
             /\ Reserves(FileWithFree(freelist_count))
             /\ page_count' * PageSize >= ReserveBytes
             /\ freelist_count' > FreeThreshold
             /\ "t" \notin schema']_vars

\* The store opened on what was a fresh file: the three tables and the
\* reserved pages.
C12_Witness ==
    /\ conn = "open"
    /\ schema = {"media", "downloads_temp", "coomeno"}
    /\ page_count * PageSize >= ReserveBytes
    /\ freelist_count > FreeThreshold

\* ------------------------------------------------- shutdown and concurrency
\* C13: exit_handler raises nothing whether the store was never initialized,
\* is open or is closed; on an open connection it makes durable what the
\* connection had not committed, then closes; on a closed or absent
\* connection it changes neither the file nor the object.
C13_ExitHandlerIsSafe ==
    [][exit_handler =>
          /\ raised' = "none"
          /\ conn = "open" => (conn' = "closed" /\ committed' = media /\ media' = media)
          /\ conn # "open" => UNCHANGED <<object, file>>
          /\ UNCHANGED <<schema, media_columns, downloads_temp, coomeno, downloads,
                         page_count, freelist_count>>]_vars

\* The connection was closed by exit_handler while a batch insert was
\* suspended: the row the batch had written is durable, and a second
\* exit_handler can act.
C13_Witness ==
    /\ conn = "closed"
    /\ \E w \in Workers :
          /\ InProgress(w)
          /\ calls[w].rows[1] \in committed
    /\ ENABLED (exit_handler /\ UNCHANGED <<object, file>>)

\* The step is a statement or a commit of a store operation of worker v.
StatementBy(v) ==
    \/ \E k \in Keys, ap \in AlbumPaths, r \in Referers :
          By(v, insert_media("example", k[1], ap, str(r), "", "", k[2], 0))
    \/ \E ap \in AlbumPaths, a \in StepAlbums : begin_insert_album(v, "example", ap, a)
    \/ \E ap \in AlbumPaths, di \in StepDomains : begin_insert_domain(v, "example", ap, di)
    \/ \E c \in StepCascades : begin_insert_cascade(v, c)
    \/ resume(v)

\* C14: while a worker is between the first statement of a mutating
\* operation and that operation's commit, no step is a statement or a commit
\* of an operation of another worker.
C14_WritersExcludeEachOther ==
    [][\A w \in Workers : InProgress(w) =>
          \A v \in Workers \ {w} : ~StatementBy(v)]_vars

\* The rows worker w's batch has written that are not yet committed, and the
\* rows its loop has still to insert.
Written(w) == {calls[w].rows[i] : i \in 1..calls[w].done} \ committed
Remaining(w) == {calls[w].rows[i] : i \in (calls[w].done + 1)..Len(calls[w].rows)}

\* C15: no step makes a row of a batch durable while a row of that batch is
\* still to be inserted and its key is not in the durable table (so the
\* durable table never holds a part of a batch's new records, whether the
\* process ends or another worker commits meanwhile); and when the batch
\* commits, every key of the batch is in the durable table, repeated and
\* present keys notwithstanding.
C15_BatchIsAllOrNothing ==
    [][\A w \in Workers :
          /\ (InProgress(w) /\ Written(w) \cap committed' # {})
                => \A r \in Remaining(w) : \E c \in committed' : Key(c) = Key(r)
          /\ (resume(w) /\ ~InProgress(w)')
                => \A i \in 1..Len(calls[w].rows) :
                      \E c \in committed' : Key(c) = Key(calls[w].rows[i])]_vars

\* ------------------------------------------------------------ foreign schema
\* C16: on a file whose table media has neither the current columns nor is
\* the V3 table, sql_initialize raises to its caller and leaves no store open
\* for use.
C16_ForeignSchemaRejected ==
    [][(sql_initialize /\ "media" \in schema /\ media_columns # MediaColumns)
          => (raised' # "none" /\ conn' # "open")]_vars

\* ------------------------------------------------------------ media records
\* The rows a step creates: those of a key the table did not hold.
Created == {r \in media' : \A old \in media : Key(old) # Key(r)}

\* The rows a step turns from pending to completed.
Completes == {r \in media' : r.completed = 1 /\ \E old \in media :
                                Key(old) = Key(r) /\ old.completed = 0}

\* The step is a call of one of the three batch insert methods.
IsBatchInsert ==
    \/ \E d \in Domains, ap \in AlbumPaths, a \in Albums : insert_album(d, ap, a)
    \/ \E d \in Domains, ap \in AlbumPaths, di \in DomainItems : insert_domain(d, ap, di)
    \/ \E c \in CascadeItems : insert_cascade(c)

\* C17 as stated: every row is created with completed = 0, whichever insert
\* method creates it, and a row is completed only by mark_complete.
C17_EveryRowCreatedPending ==
    [][/\ \A r \in Created : r.completed = 0
       /\ \A r \in Completes : mark_complete(r.url_path, r.original_filename)]_vars

\* C17 amended: the rows insert_album, insert_domain and insert_cascade create
\* are pending, their download target empty; a row insert_media creates has
\* the completed value of the call, so a row is created completed only by
\* insert_media(..., 1); and an existing pending row is completed only by
\* mark_complete of its key.
C17_BatchRowsCreatedPending ==
    [][/\ (\A r \in Created : r.completed = 0 /\ r.download_filename = "")
             \/ ~IsBatchInsert
       /\ \A r \in Created :
             \/ r.completed = 0
             \/ insert_media(r.domain, r.url_path, r.album_path, r.referer,
                             r.download_path, r.download_filename,
                             r.original_filename, 1)
       /\ \A r \in Completes : mark_complete(r.url_path, r.original_filename)]_vars

\* No record of the key, and insert_media with completed = 1 can act: the
\* record it creates is completed from the start.
C17_Witness ==
    /\ conn = "open"
    /\ RowsOf(<<"/a", "a.jpg">>) = {}
    /\ ENABLED (/\ insert_media("example", "/a", "/alb", "http://x/alb", "", "", "a.jpg", 1)
                /\ \E r \in media' : Key(r) = <<"/a", "a.jpg">> /\ r.completed = 1)

\* C18: update_pre_download and mark_complete of a key without record raise
\* nothing and leave the table as it is; of a key with a record they leave
\* every other row as it is and change, in that row, update_pre_download only
\* download_path and download_filename (to the values of the call) and
\* mark_complete only completed (to 1).
C18_UpdatesTouchOneRow ==
    [][/\ \A p \in Paths, n \in LocalNames, k \in Keys :
             update_pre_download(p, n, k[1], k[2]) =>
                /\ raised' = "none"
                /\ RowsOf(k) = {} => media' = media
                /\ {r \in media' : Key(r) # k} = {r \in media : Key(r) # k}
                /\ RowsOf(k)' = {[r EXCEPT !.download_path = p, !.download_filename = n]
                                    : r \in RowsOf(k)}
       /\ \A k \in Keys :
             mark_complete(k[1], k[2]) =>
                /\ raised' = "none"
                /\ RowsOf(k) = {} => media' = media
                /\ {r \in media' : Key(r) # k} = {r \in media : Key(r) # k}
                /\ RowsOf(k)' = {[r EXCEPT !.completed = 1] : r \in RowsOf(k)}]_vars

\* A table with a pending record of url_path /a, another record of the same
\* url_path, and no record of key (/b, b.jpg): both updates can act on the
\* record and on the missing key.
C18_Witness ==
    /\ conn = "open"
    /\ RowsOf(<<"/b", "b.jpg">>) = {}
    /\ \E r1 \in media, r2 \in media :
          /\ r1.url_path = r2.url_path /\ r1 # r2
          /\ r1.completed = 0 /\ r2.completed = 0
          /\ ENABLED (mark_complete(r1.url_path, r1.original_filename) /\ media' # media)
          /\ ENABLED (update_pre_download("/downloads", "a_1.jpg", "/b", "b.jpg")
                      /\ media' = media)

KeysOf(rows) == {Key(r) : r \in rows}
UrlPathsOf(rows) == {r.url_path : r \in rows}

\* C19: no step removes a key from media (as the connection sees it or as
\* committed) or a url_path from coomeno; sql_initialize leaves every media
\* row and every cache row as it is; and the CREATE and DROP of table t in
\* pre_allocate, whenever it reserves on a file with these rows, leaves them
\* as they are.
C19_NothingIsDeleted ==
    /\ [](\A db \in FilesToReserve :
            /\ RowsIn(pre_allocate(db).schema, "media", committed) = committed
            /\ RowsIn(pre_allocate(db).schema, "coomeno", coomeno) = coomeno)
    /\ [][/\ KeysOf(media) \subseteq KeysOf(media')
          /\ KeysOf(committed) \subseteq KeysOf(committed')
          /\ UrlPathsOf(coomeno) \subseteq UrlPathsOf(coomeno')
          /\ sql_initialize =>
                (media' = media /\ committed' = committed /\ coomeno' = coomeno)]_vars

\* A new process on a file that holds a media record and a cache entry of
\* the run before: sql_initialize acts on it.
C19_Witness ==
    /\ conn = "None"
    /\ media # {}
    /\ coomeno # {}
    /\ "media" \in schema
    /\ ENABLED (sql_initialize /\ media' = media /\ coomeno' = coomeno)

\* ------------------------------------------------------------ temp names
\* C20: two workers that each list the temp names, choose a filename that is
\* not in the list they got and insert it, never hold the same filename.
C20_NoTwoWorkersClaimOneName ==
    \A w \in Workers, v \in Workers :
       (w # v /\ claims[w].name # None /\ claims[v].name # None)
          => claims[w].name # claims[v].name

\* ------------------------------------------------------------ restarts
\* C22: every sql_initialize leaves the file with more than 1024 free pages,
\* so that pre_allocate, run on the file as it then is, does not reserve; and
\* a sql_initialize on a file that one before it has set up (reserved on or
\* not) leaves the size of the file and its free pages as they are.
C22_ReservationNotRepeated ==
    [][sql_initialize =>
          /\ freelist_count' > FreeThreshold
          /\ (~Reserves(FileWithFree(freelist_count)))'
          /\ "media" \in schema =>
                /\ ~Reserves(FileWithFree(freelist_count))
                /\ page_count' = page_count
                /\ freelist_count' = freelist_count]_vars

\* A new process on the file that was fresh and on which the run before
\* reserved: sql_initialize acts again and the file keeps its size.
C22_Witness ==
    /\ conn = "None"
    /\ schema = {"media", "downloads_temp", "coomeno"}
    /\ page_count * PageSize >= ReserveBytes
    /\ ENABLED (sql_initialize /\ page_count' = page_count)

\* C21: the Manager starts the database exactly once between two closes, and
\* no caller of async_db_hash_startup proceeds past the database block while
\* that startup has not completed: a DBManager is constructed only in place
\* of a Field, and a task that moves past the block leaves db_manager a
\* DBManager whose startup has returned.
C21_StartupOnceAndAwaited ==
    [][\A t \in Tasks :
          /\ (async_db_hash_startup(t) /\ pc'[t] = "await_startup")
                => db_manager = "Field"
          /\ (pc[t] # "past_db" /\ pc'[t] = "past_db")
                => (db_manager' # "Field" /\ db_started')]_vars
====
